---- MODULE Spec2Model ----
(***************************************************************************)
(* png2svg (code.js): the raster-to-outline pipeline of the Figma plugin.  *)
(*                                                                         *)
(*   traceEdges     scan of the alpha channel for boundary pixels, then    *)
(*                  one traceContour walk per unvisited boundary pixel     *)
(*   traceContour   Moore-neighbourhood walk, one do-while iteration per   *)
(*                  step of the model                                      *)
(*   simplifyPath   corner-preserving down-sampling of a contour           *)
(*   processImage   what the host does with the result of traceEdges       *)
(*                                                                         *)
(* A pixel is the pair <<x, y>>, 0-based as in the source.  The source     *)
(* keys its sets by the string `${x},${y}`, which is injective on integer  *)
(* pairs, so a set of keys is modelled as the set of pairs.  Only the      *)
(* alpha byte of each RGBA quadruple is read by the pipeline, so data[i]   *)
(* is the alpha of pixel i = y*width + x (data[(y*width+x)*4 + 3]).        *)
(***************************************************************************)
EXTENDS Integers, Sequences, FiniteSets, TLC

\* ---------------------------------------------------------------- bounds
\* Buffers explored: every buffer of width 1..MaxWidth and height
\* 1..MaxHeight, and the buffers of width StripeWidth and height MaxHeight
\* made of whole opaque or transparent columns (three separate outlines).
MaxWidth == 4
MaxHeight == 3
StripeWidth == 5
\* and the all-transparent 5x5 buffer, and the buffer of side DotSide whose
\* opaque pixels are isolated dots (more boundary pixels than
\* MAX_EDGE_PIXELS_OUTER, no contour).
DotSide == 5
\* The ceilings of the source, scaled to the buffers explored so that every
\* guard can trip: 50000 (code.js:717), 1000 (code.js:438), 50 (code.js:844)
\* and 10000 (code.js:803).  With MAX_PATH_LENGTH >= MaxWidth*MaxHeight every
\* walk that ends before the cap in the source ends before it here as well.
MAX_EDGE_PIXELS == 10
MAX_EDGE_PIXELS_OUTER == 8
MAX_PATHS == 2
MAX_PATH_LENGTH == 12
\* simplifyPath taken alone: paths of at most MaxLen points, targets
\* 0..MaxTarget.
MaxLen == 5
MaxTarget == 5

\* ------------------------------------------------------------- constants
\* pixelIndex % 100 (code.js:819)
PROGRESS_EVERY == 100
\* msg.density || 10 (code.js:116)
DEFAULT_DENSITY == 10
\* the ceilings of the source: MAX_EDGE_PIXELS of traceEdges (code.js:717),
\* MAX_EDGE_PIXELS of processImage (code.js:438), paths.length > 50
\* (code.js:844) and MAX_PATH_LENGTH (code.js:803)
SOURCE_MAX_EDGE_PIXELS == 50000
SOURCE_MAX_EDGE_PIXELS_OUTER == 1000
SOURCE_MAX_PATHS == 50
SOURCE_MAX_PATH_LENGTH == 10000

SourceLimits ==
    [edge |-> SOURCE_MAX_EDGE_PIXELS, outer |-> SOURCE_MAX_EDGE_PIXELS_OUTER,
     paths |-> SOURCE_MAX_PATHS, length |-> SOURCE_MAX_PATH_LENGTH]

\* the same ceilings scaled to the small buffers
ScaledLimits ==
    [edge |-> MAX_EDGE_PIXELS, outer |-> MAX_EDGE_PIXELS_OUTER,
     paths |-> MAX_PATHS, length |-> MAX_PATH_LENGTH]

Alphas == {0, 1}
Densities == {3, DEFAULT_DENSITY}

VARIABLES
    width, height, data,      \* the decoded buffer handed to traceEdges
    pathDensity,              \* target point count (global pathDensity)
    limits,                   \* the ceilings in force: edge, outer, paths, length
    pc,                       \* position in the pipeline
    pixelCount,               \* pixels scanned so far (y*width + x of the scan)
    edgePixels,               \* boundary pixels in scan order
    visited,                  \* traceEdges' visited set
    paths,                    \* contours recorded so far
    ends,                     \* history: how the walk of each recorded contour ended
    truncated,                \* history: some walk was cut by loop detection or a cap
    pixelIndex,               \* seeds taken from edgePixels so far
    startPixel, current, direction, iterations, path, pathSet,  \* traceContour
    result,                   \* what traceEdges returned: "pending", "null", "ok"
    guard,                    \* the guard that made traceEdges return null
    msgs,                     \* types of the messages sent to the UI
    vectorCreated,            \* createVectorPaths appended a vector node
    mainPath,                 \* the simplified path the vector was built from
    tracedShape,              \* <<pathWidth, pathHeight>> of that path
    status,                   \* message of the last updateStatus
    first,                    \* history: outcome of an earlier run on the same input
    sPath, sTarget, sOut,     \* simplifyPath taken alone: input, target, output
    pngDecodeResolve,         \* global: 0 is null, r the resolver of decode request r
    pngDecodeReject,          \* global: 0 is null, r the rejecter of decode request r
    requests,                 \* the decode promises of processImage, in order of creation
    uiQueue,                  \* decodePNG messages the UI has not answered yet
    inbox,                    \* messages from the UI on their way to figma.ui.onmessage
    now                       \* wall clock, in seconds

vars == <<width, height, data, pathDensity, pc, pixelCount, edgePixels, visited,
          paths, ends, truncated, pixelIndex, startPixel, current, direction, iterations,
          path, pathSet, result, guard, msgs, vectorCreated, mainPath,
          sPath, sTarget, sOut, limits, tracedShape, status, first,
          pngDecodeResolve, pngDecodeReject, requests, uiQueue, inbox, now>>

scanVars == <<pixelCount, edgePixels>>
walkVars == <<startPixel, current, direction, iterations, path, pathSet>>
traceVars == <<visited, paths, ends, truncated, pixelIndex>>
hostVars == <<vectorCreated, mainPath, tracedShape>>
decodeVars == <<pngDecodeResolve, pngDecodeReject, requests, uiQueue, inbox, now>>
inputVars == <<width, height, data, pathDensity, limits, first, decodeVars>>
simpVars == <<sPath, sTarget, sOut>>

Max(a, b) == IF a >= b THEN a ELSE b
Min(a, b) == IF a <= b THEN a ELSE b
Abs(a) == IF a >= 0 THEN a ELSE -a

\* ------------------------------------------------------- checkNeighbors
directions == << <<-1, -1>>, <<0, -1>>, <<1, -1>>,
                 <<-1, 0>>,             <<1, 0>>,
                 <<-1, 1>>,  <<0, 1>>,  <<1, 1>> >>

InBounds(nx, ny, w, h) == nx >= 0 /\ nx < w /\ ny >= 0 /\ ny < h

\* variant: only the 4 orthogonal neighbours are looked at
checkNeighborsOrthogonal(d, x, y, w, h) ==
    \E i \in {2, 4, 5, 7} :
        LET nx == x + directions[i][1]
            ny == y + directions[i][2]
        IN  \/ ~InBounds(nx, ny, w, h)
            \/ d[ny * w + nx] = 0

\* true as soon as one neighbour is outside the buffer or has alpha 0
checkNeighbors(d, x, y, w, h) ==
    \E i \in 1..Len(directions) :
        LET nx == x + directions[i][1]
            ny == y + directions[i][2]
        IN  \/ ~InBounds(nx, ny, w, h)
            \/ d[ny * w + nx] = 0

\* --------------------------------------------------------- traceContour
mooreNeighbors == << <<1, 0>>,  <<1, 1>>,   <<0, 1>>,  <<-1, 1>>,
                     <<-1, 0>>, <<-1, -1>>, <<0, -1>>, <<1, -1>> >>

Neighbor(cur, dir) ==
    <<cur[1] + mooreNeighbors[dir + 1][1], cur[2] + mooreNeighbors[dir + 1][2]>>

\* the offsets i in 0..7 whose cell (direction + i) % 8 is inside the buffer
\* and in edgeSet; the for loop takes the smallest
Hits(cur, dir, edgeSet, w, h) ==
    {i \in 0..7 :
        LET n == Neighbor(cur, (dir + i) % 8)
        IN  InBounds(n[1], n[2], w, h) /\ n \in edgeSet}

FirstHit(S) == CHOOSE i \in S : \A j \in S : i <= j

edgeSet == {edgePixels[i] : i \in 1..Len(edgePixels)}

MAX_ITERATIONS == IF limits.length # 0 THEN limits.length ELSE 10000

\* variant: the iteration count is never looked at
iterationsUnchecked(it) == FALSE

\* variant: a walk is cut after 20 iterations
iterationsExceededEarly(it) == it > 20

\* iterations > MAX_ITERATIONS, after iterations++
iterationsExceeded(it) == it > MAX_ITERATIONS

\* variant: the pixel is pushed whether visited or not
pushAlways(p, cur, vis) == Append(p, cur)

\* if (!visited.has(key)) { visited.add(key); path.push(current) }
pushIfNew(p, cur, vis) == IF cur \notin vis THEN Append(p, cur) ELSE p

\* variant: the walk ends as soon as 4 points are recorded, wherever it is
loopClosesAnywhere(cur, start, p) == Len(p) >= 4

\* the do-while condition negated: the walk is back at its seed with at
\* least 4 points recorded
loopCloses(cur, start, p) == cur = start /\ Len(p) >= 4

\* ------------------------------------------------- calculateAngle, corners
Vec(a, b) == <<b[1] - a[1], b[2] - a[2]>>

\* Math.atan2(0, 0) is 0: a zero displacement has the angle of <<1, 0>>
Dir(v) == IF v = <<0, 0>> THEN <<1, 0>> ELSE v

Dot(u, v) == u[1] * v[1] + u[2] * v[2]
Cross(u, v) == u[1] * v[2] - u[2] * v[1]

\* Pairs of displacements whose turning angle is exactly 45 degrees but whose
\* difference of two double-precision atan2 values comes out one ulp above
\* Math.PI * 0.25 (0.7853981633974485 > 0.7853981633974483); all pairs with
\* |dx| <= 4 and |dy| <= 3.
RoundedAbove == { << <<-1, -3>>, <<1, -2>> >>, << <<-1, 3>>, <<1, 2>> >>,
                  << <<1, -2>>, <<-1, -3>> >>, << <<1, 2>>, <<-1, 3>> >> }

\* calculateAngle(prev, current, next) > Math.PI * 0.25: the turning angle,
\* normalised into [-pi, pi] and taken absolute, is at most 45 degrees exactly
\* when the two displacements have a positive dot product that is at least
\* the absolute cross product.
calculateAngleSharp(prev, cur, next) ==
    LET v1 == Vec(prev, cur)
        v2 == Vec(cur, next)
        u1 == Dir(v1)
        u2 == Dir(v2)
    IN  \/ ~(Dot(u1, u2) > 0 /\ Abs(Cross(u1, u2)) <= Dot(u1, u2))
        \/ <<v1, v2>> \in RoundedAbove

\* variant: no point is flagged as a corner
cornerIndicesNone(p) == {}

\* cornerIndices: 0-based interior indices i (path[i] is p[i + 1] here)
cornerIndices(p) ==
    {i \in 1..(Len(p) - 2) : calculateAngleSharp(p[i], p[i + 1], p[i + 2])}

\* Math.round(i * step) with step = (n - 1) / (tp - 1): floor(x + 1/2)
sampleIndex(i, n, tp) == (2 * i * (n - 1) + (tp - 1)) \div (2 * (tp - 1))

\* a Set of indices iterated in insertion order: cornerIndices is filled by a
\* loop over increasing i
RECURSIVE InsertionOrder(_)
InsertionOrder(S) ==
    IF S = {} THEN <<>>
    ELSE LET m == CHOOSE i \in S : \A j \in S : i <= j
         IN  <<m>> \o InsertionOrder(S \ {m})

Range(s) == {s[i] : i \in 1..Len(s)}

\* push, in order, every candidate index that includedIndices does not hold yet
RECURSIVE pushNew(_, _)
pushNew(acc, cand) ==
    IF cand = <<>> THEN acc
    ELSE IF Head(cand) \in Range(acc) THEN pushNew(acc, Tail(cand))
    ELSE pushNew(Append(acc, Head(cand)), Tail(cand))

\* variant: the sampling loop runs one index further, through the last point
simplifiedIndicesThroughLast(p, tp) ==
    pushNew(pushNew(<<0>>, InsertionOrder(cornerIndices(p))),
            [i \in 1..(tp - 1) |-> sampleIndex(i, Len(p), tp)])

\* variant: corners are pushed only while the target is not yet reached
simplifiedIndicesCapped(p, tp) ==
    LET c == pushNew(<<0>>, InsertionOrder(cornerIndices(p)))
    IN  pushNew(SubSeq(c, 1, Min(tp, Len(c))),
                [i \in 1..(tp - 2) |-> sampleIndex(i, Len(p), tp)])

\* The array simplified before its sort, as indices into path: the elements of
\* a path are distinct objects (traceContour pushes a fresh {x, y} each time),
\* so path.indexOf(path[i]) is i and an element is identified by its index.
simplifiedIndices(p, tp) ==
    pushNew(pushNew(<<0>>, InsertionOrder(cornerIndices(p))),
            [i \in 1..(tp - 2) |-> sampleIndex(i, Len(p), tp)])

\* variant: the array is returned in the order it was filled
sortSkipped(s) == s

\* simplified.sort((a, b) => path.indexOf(a) - path.indexOf(b))
sortByIndexOf(s) == SortSeq(s, LAMBDA a, b : a < b)

\* variant: a path of exactly targetPoints points (3 or more) is not returned
\* early but goes through the sampling
simplifyPathStrict(p, targetPoints) ==
    IF Len(p) < targetPoints \/ Len(p) < 3 THEN p
    ELSE LET tp == Max(3, Min(targetPoints, Len(p)))
             idx == sortByIndexOf(simplifiedIndices(p, tp))
         IN  [k \in 1..Len(idx) |-> p[idx[k] + 1]]

simplifyPath(p, targetPoints) ==
    IF Len(p) <= targetPoints THEN p
    ELSE LET tp == Max(3, Min(targetPoints, Len(p)))
             idx == sortByIndexOf(simplifiedIndices(p, tp))
         IN  [k \in 1..Len(idx) |-> p[idx[k] + 1]]

\* ---------------------------------------------------- createVectorPaths
\* paths.reduce(...): the first path of maximal length
largestPath(ps) ==
    LET k == CHOOSE i \in 1..Len(ps) :
                /\ \A j \in 1..Len(ps) : Len(ps[j]) <= Len(ps[i])
                /\ \A j \in 1..(i - 1) : Len(ps[j]) < Len(ps[i])
    IN  ps[k]

\* maxX - minX || 1 (k = 1) and maxY - minY || 1 (k = 2) over the points of
\* the simplified path, which keep their coordinates: processImage passes
\* the width and height of the buffer it traced both as original and as
\* scaled dimensions (code.js:473), so scaleX and scaleY are 1
pathExtent(points, k) ==
    LET vs == {points[i][k] : i \in 1..Len(points)}
        hi == CHOOSE v \in vs : \A u \in vs : u <= v
        lo == CHOOSE v \in vs : \A u \in vs : v <= u
    IN  IF hi - lo # 0 THEN hi - lo ELSE 1

noVector == [created |-> FALSE, points |-> <<>>, box |-> <<0, 0>>]

\* [created |-> a vector node was appended, points |-> its simplified path,
\*  box |-> <<pathWidth, pathHeight>>]
createVectorPaths(ps, targetPoints) ==
    IF Len(ps) = 0 THEN noVector
    ELSE IF Len(largestPath(ps)) < 3 THEN noVector
    ELSE LET simplified == simplifyPath(largestPath(ps), targetPoints)
         IN  [created |-> TRUE, points |-> simplified,
              box |-> <<pathExtent(simplified, 1), pathExtent(simplified, 2)>>]

\* ------------------------------------------------------------ the state
Buffers(w, h) == [0..(w * h - 1) -> Alphas]

\* the buffer of width w and height h whose column x has alpha col[x + 1]
Striped(w, h, col) == [i \in 0..(w * h - 1) |-> col[(i % w) + 1]]

Transparent(w, h) == [i \in 0..(w * h - 1) |-> 0]

\* opaque pixels two apart in both directions: none has an opaque neighbour
Dotted(w, h) ==
    [i \in 0..(w * h - 1) |->
        IF (i % w) % 2 = 0 /\ (i \div w) % 2 = 0 THEN 1 ELSE 0]

\* no decode is awaited: the globals are null (as declared), nothing is in
\* flight between the plugin and the UI
DecodeIdle ==
    /\ pngDecodeResolve = 0
    /\ pngDecodeReject = 0
    /\ requests = <<>>
    /\ uiQueue = <<>>
    /\ inbox = <<>>
    /\ now = 0

\* processImage calls traceEdges: nothing scanned, nothing traced, nothing
\* sent about this run but the status 'Tracing edges...' (code.js:422)
Entry ==
    /\ pc = "scan"
    /\ pixelCount = 0
    /\ edgePixels = <<>>
    /\ visited = {}
    /\ paths = <<>>
    /\ ends = <<>>
    /\ truncated = FALSE
    /\ pixelIndex = 0
    /\ startPixel = <<0, 0>>
    /\ current = <<0, 0>>
    /\ direction = 0
    /\ iterations = 0
    /\ path = <<>>
    /\ pathSet = {}
    /\ result = "pending"
    /\ guard = "none"
    /\ msgs = {}
    /\ vectorCreated = FALSE
    /\ mainPath = <<>>
    /\ tracedShape = <<0, 0>>
    /\ status = "Tracing edges..."
    /\ sPath = <<>>
    /\ sTarget = 0
    /\ sOut = <<>>

Init ==
    /\ \/ /\ width \in 1..MaxWidth
          /\ height \in 1..MaxHeight
          /\ data \in Buffers(width, height)
       \/ /\ width = StripeWidth
          /\ height = MaxHeight
          /\ \E col \in [1..StripeWidth -> Alphas] :
                data = Striped(StripeWidth, MaxHeight, col)
       \/ /\ width = 5
          /\ height = 5
          /\ data = Transparent(5, 5)
       \/ /\ width = DotSide
          /\ height = DotSide
          /\ data = Dotted(DotSide, DotSide)
    /\ pathDensity \in Densities
    /\ limits = ScaledLimits
    /\ first = <<>>
    /\ DecodeIdle
    /\ Entry

\* the updateStatus that goes with guard g; none when a walk times out
statusAt(g) ==
    CASE g \in {"scanTimeout", "traceTimeout"} -> "Processing timeout"
      [] g \in {"edgeCeiling", "pathCeiling"} -> "Image too complex"
      [] OTHER -> status

\* variant: the contours found so far are returned instead of null
AbortWithPartial(g, m) ==
    /\ pc' = "post"
    /\ result' = "ok"
    /\ guard' = g
    /\ msgs' = msgs \cup m
    /\ status' = statusAt(g)

\* traceEdges returns null: guard g tripped, after sending the messages m
Abort(g, m) ==
    /\ pc' = "post"
    /\ result' = "null"
    /\ guard' = g
    /\ msgs' = msgs \cup m
    /\ status' = statusAt(g)

failure == {"error", "enableUndo:false"}

\* ------------------------------------------------- traceEdges: the scan
\* Date.now() - startTime > MAX_PROCESSING_TIME_MS at the top of an iteration
ScanTimeout ==
    /\ pc = "scan"
    /\ pixelCount < width * height
    /\ Abort("scanTimeout", failure)
    /\ UNCHANGED <<inputVars, scanVars, traceVars, walkVars, hostVars, simpVars>>

\* one iteration of the inner for loop, at x = pixelCount % width,
\* y = pixelCount \div width
ScanStep ==
    /\ pc = "scan"
    /\ pixelCount < width * height
    /\ LET x == pixelCount % width
           y == pixelCount \div width
           isEdge == data[y * width + x] > 0 /\ checkNeighbors(data, x, y, width, height)
           found == IF isEdge THEN Append(edgePixels, <<x, y>>) ELSE edgePixels
       IN  IF Len(edgePixels) > limits.edge
           THEN /\ Abort("edgeCeiling", failure)
                /\ UNCHANGED scanVars
           ELSE IF Len(found) > limits.edge
           THEN /\ Abort("edgeCeiling", failure)
                /\ edgePixels' = found
                /\ UNCHANGED pixelCount
           ELSE /\ edgePixels' = found
                /\ pixelCount' = pixelCount + 1
                /\ pc' = IF pixelCount + 1 = width * height THEN "trace" ELSE "scan"
                /\ UNCHANGED <<result, guard, msgs, status>>
    /\ UNCHANGED <<inputVars, traceVars, walkVars, hostVars, simpVars>>

\* -------------------------------------------- traceEdges: the seed loop
\* Date.now() - contourStartTime > MAX_CONTOUR_TIME_MS at the top of an iteration
TraceTimeout ==
    /\ pc = "trace"
    /\ pixelIndex < Len(edgePixels)
    /\ Abort("traceTimeout", failure)
    /\ UNCHANGED <<inputVars, scanVars, traceVars, walkVars, hostVars, simpVars>>

\* one iteration of for (const pixel of edgePixels) up to the call of
\* traceContour, whose locals it initialises
SeedStep ==
    /\ pc = "trace"
    /\ pixelIndex < Len(edgePixels)
    /\ pixelIndex' = pixelIndex + 1
    /\ LET pixel == edgePixels[pixelIndex + 1]
       IN  IF (pixelIndex + 1) % PROGRESS_EVERY = 0 /\ Len(paths) > limits.paths
           THEN /\ Abort("pathCeiling", failure)
                /\ UNCHANGED walkVars
           ELSE IF pixel \notin visited
           THEN /\ startPixel' = pixel
                /\ current' = pixel
                /\ direction' = 0
                /\ iterations' = 0
                /\ path' = <<>>
                /\ pathSet' = {}
                /\ pc' = "walk"
                /\ UNCHANGED <<result, guard, msgs, status>>
           ELSE /\ UNCHANGED <<pc, result, guard, msgs, status>>
                /\ UNCHANGED walkVars
    /\ UNCHANGED <<inputVars, scanVars, visited, paths, ends, truncated, hostVars,
                   simpVars>>

\* the loop is over: return { paths, edgePixels }
TraceReturn ==
    /\ pc = "trace"
    /\ pixelIndex = Len(edgePixels)
    /\ pc' = "post"
    /\ result' = "ok"
    /\ UNCHANGED <<inputVars, scanVars, traceVars, walkVars, guard, msgs,
                   status, hostVars, simpVars>>

\* ------------------------------------------------- traceContour: the walk
\* the timeout check at the top of the do-while body: traceContour returns
\* null, and traceEdges returns null without a message (code.js:832-835)
WalkTimeout ==
    /\ pc = "walk"
    /\ Abort("walkTimeout", {})
    /\ UNCHANGED <<inputVars, scanVars, traceVars, walkVars, hostVars, simpVars>>

\* variant: whatever the walk recorded is kept
recordPathAny(p, why, cur) ==
    LET kept == Append(paths, p)
    IN  /\ paths' = kept
        /\ ends' = Append(ends, [why |-> why, at |-> cur])
        /\ truncated' = (truncated \/ why \in {"iterations", "length", "cycle"})
        /\ IF Len(kept) > limits.paths
           THEN Abort("pathCeiling", failure)
           ELSE /\ pc' = "trace"
                /\ UNCHANGED <<result, guard, msgs, status>>

\* variant: a path of 2 points is kept as well
recordPathFromTwo(p, why, cur) ==
    LET kept == IF Len(p) > 1 THEN Append(paths, p) ELSE paths
    IN  /\ paths' = kept
        /\ ends' = IF Len(p) > 1
                   THEN Append(ends, [why |-> why, at |-> cur])
                   ELSE ends
        /\ truncated' = (truncated \/ why \in {"iterations", "length", "cycle"})
        /\ IF Len(kept) > limits.paths
           THEN Abort("pathCeiling", failure)
           ELSE /\ pc' = "trace"
                /\ UNCHANGED <<result, guard, msgs, status>>

\* variant: the number of paths is not looked at
recordPathUncapped(p, why, cur) ==
    LET kept == IF Len(p) > 2 THEN Append(paths, p) ELSE paths
    IN  /\ paths' = kept
        /\ ends' = IF Len(p) > 2
                   THEN Append(ends, [why |-> why, at |-> cur])
                   ELSE ends
        /\ truncated' = (truncated \/ why \in {"iterations", "length", "cycle"})
        /\ IF FALSE
           THEN Abort("pathCeiling", failure)
           ELSE /\ pc' = "trace"
                /\ UNCHANGED <<result, guard, msgs, status>>

\* traceContour returned p, its walk having ended for reason why at cur:
\* traceEdges records it when it has more than 2 points, then checks the
\* ceiling on the number of paths
recordPath(p, why, cur) ==
    LET kept == IF Len(p) > 2 THEN Append(paths, p) ELSE paths
    IN  /\ paths' = kept
        /\ ends' = IF Len(p) > 2
                   THEN Append(ends, [why |-> why, at |-> cur])
                   ELSE ends
        /\ truncated' = (truncated \/ why \in {"iterations", "length", "cycle"})
        /\ IF Len(kept) > limits.paths
           THEN Abort("pathCeiling", failure)
           ELSE /\ pc' = "trace"
                /\ UNCHANGED <<result, guard, msgs, status>>

\* one iteration of the do-while loop, the return to traceEdges included
\* when the loop ends in it
WalkStep ==
    /\ pc = "walk"
    /\ iterations' = iterations + 1
    /\ IF iterationsExceeded(iterations + 1)
       THEN /\ recordPath(path, "iterations", current)
            /\ UNCHANGED <<visited, startPixel, current, direction, path, pathSet>>
       ELSE IF Len(path) > MAX_ITERATIONS
       THEN /\ recordPath(path, "length", current)
            /\ UNCHANGED <<visited, startPixel, current, direction, path, pathSet>>
       ELSE IF current \in pathSet /\ Len(path) > 4
       THEN /\ recordPath(path, "cycle", current)
            /\ UNCHANGED <<visited, startPixel, current, direction, path, pathSet>>
       ELSE LET pushed == pushIfNew(path, current, visited)
                hits == Hits(current, direction, edgeSet, width, height)
                checkDir == (direction + FirstHit(hits)) % 8
                next == Neighbor(current, checkDir)
            IN  /\ pathSet' = pathSet \cup {current}
                /\ visited' = visited \cup {current}
                /\ path' = pushed
                /\ UNCHANGED startPixel
                /\ IF hits = {}
                   THEN /\ recordPath(pushed, "notFound", current)
                        /\ UNCHANGED <<current, direction>>
                   ELSE /\ current' = next
                        /\ direction' = (checkDir + 6) % 8
                        /\ IF loopCloses(next, startPixel, pushed)
                           THEN recordPath(pushed, "closed", next)
                           ELSE /\ pc' = "walk"
                                /\ UNCHANGED <<paths, ends, truncated, result,
                                               guard, msgs, status>>
    /\ UNCHANGED <<inputVars, scanVars, pixelIndex, hostVars, simpVars>>

\* ------------------------------------------- processImage after traceEdges
AfterTrace ==
    /\ pc = "post"
    /\ pc' = "done"
    /\ IF result = "null"
       THEN UNCHANGED <<msgs, status, hostVars>>
       ELSE IF Len(edgePixels) > limits.outer
       THEN /\ msgs' = msgs \cup failure
            /\ status' = "Image too complex"
            /\ UNCHANGED hostVars
       ELSE IF Len(paths) = 0
       THEN /\ msgs' = msgs \cup {"error"}
            /\ status' = "No edges found"
            /\ UNCHANGED hostVars
       ELSE LET made == createVectorPaths(paths, pathDensity)
            IN  /\ vectorCreated' = made.created
                /\ mainPath' = made.points
                /\ tracedShape' = made.box
                /\ status' = "Tracing complete!"
                /\ msgs' = msgs \cup {"complete"}
                              \cup (IF made.created THEN {"enableUndo:true"} ELSE {})
    /\ UNCHANGED <<inputVars, scanVars, traceVars, walkVars, result, guard, simpVars>>

Next ==
    \/ ScanTimeout
    \/ ScanStep
    \/ TraceTimeout
    \/ SeedStep
    \/ TraceReturn
    \/ WalkTimeout
    \/ WalkStep
    \/ AfterTrace

Spec == Init /\ [][Next]_vars

\* The pipeline when the wall clock never runs out: the three timeout checks
\* never fire, and the synchronous code runs on until it returns.
SteadyNext ==
    \/ ScanStep
    \/ SeedStep
    \/ TraceReturn
    \/ WalkStep
    \/ AfterTrace

SteadySpec == Init /\ [][SteadyNext]_vars

\* ------------------------------------------------------- a second run
\* what a run leaves behind: what traceEdges returned, what was made of it
\* and what was sent
Outcome ==
    [result |-> result,
     paths |-> IF result = "ok" THEN paths ELSE <<>>,
     created |-> vectorCreated,
     points |-> mainPath,
     box |-> tracedShape,
     msgs |-> msgs,
     status |-> status]

\* variant: the second run starts with the visited set of the first
RerunKeepingVisited ==
    /\ pc = "done"
    /\ first = <<>>
    /\ first' = <<[guard |-> guard, outcome |-> Outcome]>>
    /\ pc' = "scan"
    /\ pixelCount' = 0
    /\ edgePixels' = <<>>
    /\ paths' = <<>>
    /\ ends' = <<>>
    /\ truncated' = FALSE
    /\ pixelIndex' = 0
    /\ startPixel' = <<0, 0>>
    /\ current' = <<0, 0>>
    /\ direction' = 0
    /\ iterations' = 0
    /\ path' = <<>>
    /\ pathSet' = {}
    /\ result' = "pending"
    /\ guard' = "none"
    /\ msgs' = {}
    /\ vectorCreated' = FALSE
    /\ mainPath' = <<>>
    /\ tracedShape' = <<0, 0>>
    /\ status' = "Tracing edges..."
    /\ UNCHANGED <<width, height, data, pathDensity, limits, visited, simpVars,
                   decodeVars>>

\* The run is over and startTracing is handled again, for the same image and
\* with the same settings: processImage is handed the same buffer, and
\* traceEdges starts on fresh locals.  The outcome of the run that is over
\* is kept in first; msgs and vectorCreated are those of the new run.
Rerun ==
    /\ pc = "done"
    /\ first = <<>>
    /\ first' = <<[guard |-> guard, outcome |-> Outcome]>>
    /\ pc' = "scan"
    /\ pixelCount' = 0
    /\ edgePixels' = <<>>
    /\ visited' = {}
    /\ paths' = <<>>
    /\ ends' = <<>>
    /\ truncated' = FALSE
    /\ pixelIndex' = 0
    /\ startPixel' = <<0, 0>>
    /\ current' = <<0, 0>>
    /\ direction' = 0
    /\ iterations' = 0
    /\ path' = <<>>
    /\ pathSet' = {}
    /\ result' = "pending"
    /\ guard' = "none"
    /\ msgs' = {}
    /\ vectorCreated' = FALSE
    /\ mainPath' = <<>>
    /\ tracedShape' = <<0, 0>>
    /\ status' = "Tracing edges..."
    /\ UNCHANGED <<width, height, data, pathDensity, limits, simpVars, decodeVars>>

RerunNext ==
    \/ Next
    \/ Rerun

RerunSpec == Init /\ [][RerunNext]_vars

\* ------------------------------------------------------- named buffers
\* Buffers taken whole, under the ceilings of the source and with the
\* default target of 10 points.
\* a 20x20 canvas, transparent but for the 10x10 opaque square whose top
\* left pixel is <<ox, oy>>
SquareCanvas(ox, oy) ==
    [i \in 0..399 |->
        IF (i % 20) \in ox..(ox + 9) /\ (i \div 20) \in oy..(oy + 9)
        THEN 255 ELSE 0]

\* alternate pixels opaque; parity 0 makes pixel <<0, 0>> opaque
Checkerboard(w, h, parity) ==
    [i \in 0..(w * h - 1) |->
        IF ((i % w) + (i \div w)) % 2 = parity THEN 255 ELSE 0]

ScenarioInit ==
    /\ \/ /\ width = 20
          /\ height = 20
          /\ \E ox \in 0..10, oy \in 0..10 : data = SquareCanvas(ox, oy)
       \/ \E n \in {3, 5}, parity \in {0, 1} :
             /\ width = n
             /\ height = n
             /\ data = Checkerboard(n, n, parity)
    /\ pathDensity = DEFAULT_DENSITY
    /\ limits = SourceLimits
    /\ first = <<>>
    /\ DecodeIdle
    /\ Entry

ScenarioSpec == ScenarioInit /\ [][SteadyNext]_vars

\* ------------------------------------------------ simplifyPath taken alone
\* the points of the input paths: three columns, two rows
Lattice == (0..2) \X (0..1)
InputPaths == UNION {[1..n -> Lattice] : n \in 0..MaxLen}

SimpInit ==
    /\ sPath \in InputPaths
    /\ sTarget \in 0..MaxTarget
    /\ sOut = <<>>
    /\ pc = "simplify"
    /\ width = 1
    /\ height = 1
    /\ data = [i \in {0} |-> 0]
    /\ pathDensity = DEFAULT_DENSITY
    /\ pixelCount = 0
    /\ edgePixels = <<>>
    /\ visited = {}
    /\ paths = <<>>
    /\ ends = <<>>
    /\ truncated = FALSE
    /\ pixelIndex = 0
    /\ startPixel = <<0, 0>>
    /\ current = <<0, 0>>
    /\ direction = 0
    /\ iterations = 0
    /\ path = <<>>
    /\ pathSet = {}
    /\ result = "pending"
    /\ guard = "none"
    /\ msgs = {}
    /\ vectorCreated = FALSE
    /\ mainPath = <<>>
    /\ tracedShape = <<0, 0>>
    /\ status = "Ready"
    /\ first = <<>>
    /\ limits = SourceLimits
    /\ DecodeIdle

\* the call simplifyPath(sPath, sTarget)
SimplifyCall ==
    /\ pc = "simplify"
    /\ sOut' = simplifyPath(sPath, sTarget)
    /\ pc' = "simplified"
    /\ UNCHANGED <<inputVars, scanVars, traceVars, walkVars, result, guard, msgs,
                   status, hostVars, sPath, sTarget>>

SimpNext == SimplifyCall

SimpSpec == SimpInit /\ [][SimpNext]_vars

\* ------------------------------------------------- the decode handshake
\* processImage hands the image bytes to the UI and awaits the reply.  The
\* resolver and the rejecter of the awaited promise are kept in the two
\* globals pngDecodeResolve and pngDecodeReject; here a global holds the
\* number of the request whose closure it refers to, or 0 for null.
\* figma.ui.onmessage is async: a startTracing message is handled while an
\* earlier run is suspended at its await.

\* setTimeout(..., 5000), in seconds
DECODE_TIMEOUT == 5
\* startTracing messages handled in one behaviour
MaxRequests == 2
\* the clock stops here
MaxClock == 12

pending(r) == r \in 1..Len(requests) /\ requests[r].state = "pending"

\* settling a promise that is settled already changes nothing
settle(r, how, value) ==
    IF pending(r)
    THEN [requests EXCEPT ![r].state = how, ![r].pixelData = value]
    ELSE requests

HandshakeInit ==
    /\ DecodeIdle
    /\ pc = "decode"
    /\ width = 1
    /\ height = 1
    /\ data = [i \in {0} |-> 0]
    /\ pathDensity = DEFAULT_DENSITY
    /\ limits = SourceLimits
    /\ pixelCount = 0
    /\ edgePixels = <<>>
    /\ visited = {}
    /\ paths = <<>>
    /\ ends = <<>>
    /\ truncated = FALSE
    /\ pixelIndex = 0
    /\ startPixel = <<0, 0>>
    /\ current = <<0, 0>>
    /\ direction = 0
    /\ iterations = 0
    /\ path = <<>>
    /\ pathSet = {}
    /\ result = "pending"
    /\ guard = "none"
    /\ msgs = {}
    /\ vectorCreated = FALSE
    /\ mainPath = <<>>
    /\ tracedShape = <<0, 0>>
    /\ status = "Ready"
    /\ first = <<>>
    /\ sPath = <<>>
    /\ sTarget = 0
    /\ sOut = <<>>

pipelineVars == <<width, height, data, pathDensity, limits, first, pc, scanVars,
                  traceVars, walkVars, result, guard, hostVars, simpVars>>

\* a startTracing message reaches the await of processImage: the promise is
\* created, its timer armed, the two globals are assigned its closures
\* (whatever they held), and decodePNG is posted to the UI
StartDecode ==
    /\ Len(requests) < MaxRequests
    /\ LET r == Len(requests) + 1
       IN  /\ requests' = Append(requests,
                  [state |-> "pending", deadline |-> now + DECODE_TIMEOUT,
                   pixelData |-> 0])
           /\ pngDecodeResolve' = r
           /\ pngDecodeReject' = r
           /\ uiQueue' = Append(uiQueue, r)
    /\ status' = "Decoding PNG in UI..."
    /\ UNCHANGED <<inbox, now, msgs, pipelineVars>>

\* the timer of request r fires: both globals are set to null, whichever
\* request they belong to, the failure is reported and the promise of r is
\* rejected; the catch of processImage reports the error again
DecodeTimeout(r) ==
    /\ pending(r)
    /\ now >= requests[r].deadline
    /\ pngDecodeResolve' = 0
    /\ pngDecodeReject' = 0
    /\ requests' = settle(r, "timedOut", 0)
    /\ msgs' = msgs \cup failure
    /\ status' = "Processing error"
    /\ UNCHANGED <<uiQueue, inbox, now, pipelineVars>>

\* the UI answers the oldest decodePNG message, with the pixels decoded from
\* the bytes of that message or with an error
UiDecode ==
    /\ uiQueue # <<>>
    /\ \E type \in {"pngDecoded", "pngDecodeError"} :
          inbox' = Append(inbox, [type |-> type, data |-> Head(uiQueue)])
    /\ uiQueue' = Tail(uiQueue)
    /\ UNCHANGED <<pngDecodeResolve, pngDecodeReject, requests, now, msgs, status,
                   pipelineVars>>

\* figma.ui.onmessage, msg.type === 'pngDecoded': the resolver in the global,
\* if any, is called with msg.data (it clears the timer of its own request)
\* and both globals are set to null
OnPngDecoded ==
    /\ inbox # <<>>
    /\ Head(inbox).type = "pngDecoded"
    /\ inbox' = Tail(inbox)
    /\ IF pngDecodeResolve # 0
       THEN /\ requests' = settle(pngDecodeResolve, "resolved", Head(inbox).data)
            /\ pngDecodeResolve' = 0
            /\ pngDecodeReject' = 0
       ELSE UNCHANGED <<requests, pngDecodeResolve, pngDecodeReject>>
    /\ UNCHANGED <<uiQueue, now, msgs, status, pipelineVars>>

\* figma.ui.onmessage, msg.type === 'pngDecodeError': the rejecter in the
\* global, if any, is called and both globals are set to null; the catch of
\* processImage reports the error
OnPngDecodeError ==
    /\ inbox # <<>>
    /\ Head(inbox).type = "pngDecodeError"
    /\ inbox' = Tail(inbox)
    /\ IF pngDecodeReject # 0
       THEN /\ requests' = settle(pngDecodeReject, "rejected", 0)
            /\ pngDecodeResolve' = 0
            /\ pngDecodeReject' = 0
            /\ msgs' = msgs \cup {"error"}
            /\ status' = "Processing error"
       ELSE UNCHANGED <<requests, pngDecodeResolve, pngDecodeReject, msgs, status>>
    /\ UNCHANGED <<uiQueue, now, pipelineVars>>

\* a second passes; a timer that is due fires before the clock moves on
Tick ==
    /\ now < MaxClock
    /\ \A r \in 1..Len(requests) : pending(r) => now < requests[r].deadline
    /\ now' = now + 1
    /\ UNCHANGED <<pngDecodeResolve, pngDecodeReject, requests, uiQueue, inbox,
                   msgs, status, pipelineVars>>

HandshakeNext ==
    \/ StartDecode
    \/ \E r \in 1..MaxRequests : DecodeTimeout(r)
    \/ UiDecode
    \/ OnPngDecoded
    \/ OnPngDecodeError
    \/ Tick

HandshakeSpec == HandshakeInit /\ [][HandshakeNext]_vars

\* ================================================================ claims
Pixel(i) == <<i % width, i \div width>>
AlphaAt(q) == data[q[2] * width + q[1]]

\* alpha non-zero and one of the 8 surrounding cells outside the buffer or
\* of alpha exactly 0
IsBoundary(q) ==
    /\ AlphaAt(q) # 0
    /\ \E dx \in -1..1, dy \in -1..1 :
          /\ <<dx, dy>> # <<0, 0>>
          /\ LET n == <<q[1] + dx, q[2] + dy>>
             IN  \/ n[1] < 0 \/ n[1] >= width \/ n[2] < 0 \/ n[2] >= height
                 \/ AlphaAt(n) = 0

\* C1: a scanned pixel is recorded as a boundary pixel if and only if its
\* alpha is non-zero and one of its 8 neighbours is outside the buffer or has
\* alpha 0; nothing else is ever recorded.
C1_EdgeDetection ==
    /\ \A q \in edgeSet : IsBoundary(q)
    /\ \A i \in 0..(pixelCount - 1) : IsBoundary(Pixel(i)) => Pixel(i) \in edgeSet

\* C1 witness: the scan of a fully opaque 3x3 buffer is over; the 8 border
\* pixels are recorded and the centre, with 8 opaque neighbours, is not.
C1_Witness ==
    /\ pc = "trace"
    /\ width = 3 /\ height = 3
    /\ \A i \in 0..8 : data[i] # 0
    /\ edgeSet = {Pixel(i) : i \in 0..8} \ {<<1, 1>>}

Distinct(s) == \A a, b \in 1..Len(s) : s[a] = s[b] => a = b
Last(s) == s[Len(s)]
guardCuts == {"cycle", "iterations", "length"}

\* C2 as stated: a returned contour of at least 4 points starts and ends at
\* the same coordinate, or its walk was cut by loop detection or a cap.
C2_ClosedOrTruncated ==
    result = "ok" =>
        \A i \in 1..Len(paths) :
            Len(paths[i]) >= 4 =>
                \/ paths[i][1] = Last(paths[i])
                \/ ends[i].why \in guardCuts

\* C2 amended: a recorded contour of at least 4 points either closed, the
\* walk standing on its seed, which is the first point and is not appended a
\* second time (its points are pairwise distinct, so the first and the last
\* differ), or was cut by loop detection or a cap; it never ended for want
\* of a neighbour.
C2_SeedReachedOrTruncated ==
    \A i \in 1..Len(paths) :
        Len(paths[i]) >= 4 =>
            /\ Distinct(paths[i])
            /\ paths[i][1] # Last(paths[i])
            /\ \/ ends[i].why = "closed" /\ ends[i].at = paths[i][1]
               \/ ends[i].why \in guardCuts

\* C2 witness: traceEdges returned a contour of at least 4 points whose walk
\* closed at its seed.
C2_Witness ==
    /\ result = "ok"
    /\ \E i \in 1..Len(paths) : Len(paths[i]) >= 4 /\ ends[i].why = "closed"

Step8(a, b) == a # b /\ Abs(a[1] - b[1]) <= 1 /\ Abs(a[2] - b[2]) <= 1

\* C3: in every returned contour, consecutive points are 8-neighbours.
C3_NoTeleport ==
    result = "ok" =>
        \A i \in 1..Len(paths) :
            \A k \in 1..(Len(paths[i]) - 1) : Step8(paths[i][k], paths[i][k + 1])

\* the contours recorded so far and, during a walk, the one being built
Contours == IF pc = "walk" THEN Append(paths, path) ELSE paths

\* C4: at every point of a run, no pixel occurs twice in the contours, in
\* the same one or in two of them, and every recorded pixel is in visited.
C4_NoSharedPixel ==
    /\ \A i, j \in 1..Len(Contours) :
          \A a \in 1..Len(Contours[i]), b \in 1..Len(Contours[j]) :
              Contours[i][a] = Contours[j][b] => (i = j /\ a = b)
    /\ \A i \in 1..Len(Contours) : Range(Contours[i]) \subseteq visited

\* C4 witness: a later walk, which has recorded a pixel of its own, stands on
\* a pixel of an earlier contour.
C4_Witness ==
    /\ pc = "walk"
    /\ Len(paths) >= 1
    /\ Len(path) >= 1
    /\ current \in Range(paths[1])

\* the 8-connected component of q among the boundary pixels
RECURSIVE Grow(_)
Grow(S) ==
    LET T == S \cup {q \in edgeSet : \E r \in S : Step8(q, r)}
    IN  IF T = S THEN S ELSE Grow(T)

Components == {Grow({q}) : q \in edgeSet}

ContoursIn(c) == {i \in 1..Len(paths) : Range(paths[i]) \cap c # {}}

\* C5: when no guard trips, traceEdges returns exactly one contour per
\* 8-connected component of boundary pixels; stated here is the half that no
\* component is split: no two returned contours lie in the same component.
C5_NeverSplit ==
    (result = "ok" /\ ~truncated) =>
        \A c \in Components : Cardinality(ContoursIn(c)) <= 1

\* Work done so far, counted in loop iterations: scanned pixels, then for
\* every seed taken one slot of maxPathLength + 3 iterations, of which the
\* walk in progress has used 1 + iterations; then the return and the host.
SeedSlot == MAX_PATH_LENGTH + 3
Work ==
    CASE pc = "scan" -> pixelCount
      [] pc = "trace" -> width * height + pixelIndex * SeedSlot
      [] pc = "walk" -> width * height + (pixelIndex - 1) * SeedSlot + 1 + iterations
      [] pc = "post" -> width * height + (Len(edgePixels) + 1) * SeedSlot
      [] pc = "done" -> width * height + (Len(edgePixels) + 1) * SeedSlot + 1
WorkLimit == width * height + (width * height + 1) * SeedSlot + 1

\* C6: with the wall-clock guard never firing, no walk runs more than
\* maxPathLength + 1 iterations of its loop, and traceEdges terminates: every
\* step adds to the work done, the work done never exceeds a limit fixed by
\* the buffer's size, and until traceEdges has returned one of its steps is
\* possible.
C6_BoundedWork ==
    /\ [](iterations <= MAX_PATH_LENGTH + 1)
    /\ [](Work <= WorkLimit)
    /\ [](pc \in {"scan", "trace", "walk"} =>
             ENABLED (ScanStep \/ SeedStep \/ TraceReturn \/ WalkStep))
    /\ [][Work' > Work]_vars

\* C6 witness: a walk that oscillated over visited pixels without ever
\* collecting 4 points was stopped at iteration maxPathLength + 1.
C6_Witness ==
    /\ pc = "trace"
    /\ iterations = MAX_PATH_LENGTH + 1
    /\ Len(path) < 4

\* C7: once a guard of the scan or of the tracing has tripped, traceEdges
\* has returned null, no vector is created and 'complete' is never sent.
C7_AbortDiscards ==
    guard # "none" =>
        /\ result = "null"
        /\ ~vectorCreated
        /\ "complete" \notin msgs

\* C7 witness: the run is over after the ceiling on the number of contours
\* tripped with contours already recorded; nothing was made of them.
C7_Witness ==
    /\ pc = "done"
    /\ guard = "pathCeiling"
    /\ Len(paths) > MAX_PATHS
    /\ ~vectorCreated

\* C8: simplifyPath returns at least min(3, path.length) points; stated here
\* for the inputs the pipeline can hand it, a path of pairwise distinct
\* points and a target of at least 3.
C8_LowerBound ==
    (pc = "simplified" /\ sTarget >= 3 /\ Distinct(sPath)) =>
        Len(sOut) >= Min(3, Len(sPath))

\* C9 as stated: for a contour (pairwise distinct points) and a target
\* k >= 3 the simplified path has at most k points.
C9_AtMostTarget ==
    (pc = "simplified" /\ sTarget >= 3 /\ Distinct(sPath)) =>
        Len(sOut) <= sTarget

\* C9 amended: for a target k >= 3, a path of at most k points is returned
\* whole, and a longer one yields at most k - 1 points plus one per point
\* that simplifyPath flags as a corner.
C9_AtMostTargetPlusCorners ==
    (pc = "simplified" /\ sTarget >= 3) =>
        IF Len(sPath) <= sTarget
        THEN Len(sOut) = Len(sPath)
        ELSE Len(sOut) <= sTarget - 1 + Cardinality(cornerIndices(sPath))

\* C9 witness: corners carried the output over the target, up to the limit.
C9_Witness ==
    /\ pc = "simplified"
    /\ sTarget >= 3
    /\ Distinct(sPath)
    /\ Len(sOut) > sTarget
    /\ Len(sOut) = sTarget - 1 + Cardinality(cornerIndices(sPath))

\* the turn from segment a-b to segment b-c, both of non-zero length, is of
\* more than 45 degrees: the cosine is not positive, or the tangent exceeds 1
TurnsSharply(a, b, c) ==
    LET u == <<b[1] - a[1], b[2] - a[2]>>
        v == <<c[1] - b[1], c[2] - b[2]>>
        cosine == u[1] * v[1] + u[2] * v[2]
        sine == u[1] * v[2] - u[2] * v[1]
    IN  /\ u # <<0, 0>>
        /\ v # <<0, 0>>
        /\ \/ cosine <= 0
           \/ sine > cosine
           \/ -sine > cosine

SharpTurns(p) == {i \in 2..(Len(p) - 1) : TurnsSharply(p[i - 1], p[i], p[i + 1])}

\* C10: when the path is longer than the target, the output contains the
\* first point and every interior point whose turning angle exceeds 45 degrees.
C10_CornersKept ==
    (pc = "simplified" /\ Len(sPath) > sTarget) =>
        /\ sPath[1] \in Range(sOut)
        /\ \A i \in SharpTurns(sPath) : sPath[i] \in Range(sOut)

\* C10 witness: a path with a sharp turn was cut down, some point left out.
C10_Witness ==
    /\ pc = "simplified"
    /\ Distinct(sPath)
    /\ Len(sPath) > sTarget
    /\ SharpTurns(sPath) # {}
    /\ Len(sOut) < Len(sPath)

\* s can be had from t by deleting elements of t
RECURSIVE IsSubsequence(_, _)
IsSubsequence(s, t) ==
    IF s = <<>> THEN TRUE
    ELSE IF t = <<>> THEN FALSE
    ELSE IF Head(s) = Head(t) THEN IsSubsequence(Tail(s), Tail(t))
    ELSE IsSubsequence(s, Tail(t))

\* C11: the points returned by simplifyPath are a subsequence of the input
\* path, in the order of the original traversal, and no point of a path of
\* pairwise distinct points is returned twice.
C11_OrderPreserved ==
    pc = "simplified" =>
        /\ IsSubsequence(sOut, sPath)
        /\ Distinct(sPath) => Distinct(sOut)

\* C11 witness: a path was cut down, and the array simplified, corners first
\* and samples after, was not in path order before its sort.
C11_Witness ==
    /\ pc = "simplified"
    /\ Distinct(sPath)
    /\ Len(sPath) > sTarget
    /\ LET filled == simplifiedIndices(sPath, Max(3, Min(sTarget, Len(sPath))))
       IN  filled # sortByIndexOf(filled)

\* C12: a path of at most k points is returned unchanged by
\* simplifyPath(path, k), and simplifying a result of at most k points a
\* second time with the same k changes nothing.
C12_Idempotent ==
    pc = "simplified" =>
        /\ Len(sPath) <= sTarget => sOut = sPath
        /\ Len(sOut) <= sTarget => simplifyPath(sOut, sTarget) = sOut

\* C12 witness: a path of 3 or more points, a corner among them, no longer
\* than the target, came back whole.
C12_Witness ==
    /\ pc = "simplified"
    /\ Len(sPath) >= 3
    /\ Len(sPath) <= sTarget
    /\ cornerIndices(sPath) # {}
    /\ sOut = sPath

\* the buffer is the 20x20 canvas with the 10x10 square at <<ox, oy>>
IsSquareAt(ox, oy) == width = 20 /\ height = 20 /\ data = SquareCanvas(ox, oy)

\* the 36 pixels on the rim of that square
Perimeter(ox, oy) ==
    {q \in (ox..(ox + 9)) \X (oy..(oy + 9)) :
        q[1] \in {ox, ox + 9} \/ q[2] \in {oy, oy + 9}}

\* C13: for a 10x10 opaque square anywhere inside a 20x20 transparent
\* canvas, traceEdges returns exactly one contour, made of the square's 36
\* perimeter pixels, each once.
C13_SquareContour ==
    (result = "ok" /\ width = 20) =>
        \A ox \in 0..10, oy \in 0..10 :
            IsSquareAt(ox, oy) =>
                /\ Len(paths) = 1
                /\ Len(paths[1]) = 36
                /\ Range(paths[1]) = Perimeter(ox, oy)

\* C13 witness: traceEdges returned for the square at <<5, 5>>, its walk
\* having closed at the seed <<5, 5>>.
C13_Witness ==
    /\ result = "ok"
    /\ IsSquareAt(5, 5)
    /\ Len(paths) = 1
    /\ ends[1] = [why |-> "closed", at |-> <<5, 5>>]

\* the 4 corner pixels of the square at <<ox, oy>>
SquareCorners(ox, oy) == {ox, ox + 9} \X {oy, oy + 9}

\* C14 as stated: the square's contour, simplified with target 10, has
\* exactly 10 points, the 4 corner pixels among them.
C14_ExactlyTen ==
    (pc = "done" /\ vectorCreated /\ width = 20) =>
        \A ox \in 0..10, oy \in 0..10 :
            IsSquareAt(ox, oy) =>
                /\ Len(mainPath) = 10
                /\ SquareCorners(ox, oy) \subseteq Range(mainPath)

\* C14 amended: the square's 36-point contour, simplified with target 10,
\* has 11 points: its first point, the 3 points flagged as corners (indices
\* 9, 18 and 27) and the 7 samples that are not corners (indices 4, 8, 12,
\* 16, 19, 23 and 31; the sample 27 is a corner); the 4 corner pixels of the
\* square are among them.
C14_ElevenWithCorners ==
    (pc = "done" /\ vectorCreated /\ width = 20) =>
        \A ox \in 0..10, oy \in 0..10 :
            IsSquareAt(ox, oy) =>
                /\ Len(mainPath) = 11
                /\ mainPath = [k \in 1..11 |->
                      paths[1][<<0, 4, 8, 9, 12, 16, 18, 19, 23, 27, 31>>[k] + 1]]
                /\ SquareCorners(ox, oy) \subseteq Range(mainPath)

\* C14 witness: the run on the square at <<5, 5>> is over, a vector made
\* from a simplified path of more than 10 points.
C14_Witness ==
    /\ pc = "done"
    /\ vectorCreated
    /\ IsSquareAt(5, 5)
    /\ pathDensity = 10
    /\ Len(paths[1]) = 36
    /\ Len(mainPath) > 10

\* C15: for the 10x10 square in the 20x20 canvas the bounding box that
\* createVectorPaths computes from the simplified path is 10 wide and 10
\* high.
C15_BoxTenByTen ==
    (pc = "done" /\ vectorCreated /\ width = 20) =>
        \A ox \in 0..10, oy \in 0..10 :
            IsSquareAt(ox, oy) => tracedShape = <<10, 10>>

C17_AtLeastThree ==
    /\ [](\A i \in 1..Len(paths) : Len(paths[i]) >= 3)
    /\ [][(pc = "walk" /\ pc' # "walk" /\ Len(path') < 3) =>
             (paths' = paths /\ Range(path') \subseteq visited')]_vars

\* C17 witness: a walk has ended with 2 points recorded; they are in
\* visited and in no contour of the list.
C17_Witness ==
    /\ pc = "trace"
    /\ Len(path) = 2
    /\ Range(path) \subseteq visited
    /\ \A i \in 1..Len(paths) : Range(paths[i]) \cap Range(path) = {}

\* the guards that read the wall clock
clockGuards == {"scanTimeout", "traceTimeout", "walkTimeout"}

IsCheckerboard ==
    /\ width >= 2
    /\ height >= 2
    /\ \E parity \in {0, 1} :
          \A i \in 0..(width * height - 1) :
              (data[i] # 0) <=> (((i % width) + (i \div width)) % 2 = parity)

\* C19: a run on a checkerboard-alpha image ends in a complexity failure:
\* the status 'Image too complex', an error sent, no shape made and no
\* 'complete' sent.
C19_CheckerboardFails ==
    (pc = "done" /\ IsCheckerboard) =>
        /\ status = "Image too complex"
        /\ "error" \in msgs
        /\ ~vectorCreated
        /\ "complete" \notin msgs

\* a run that is over without a shape: it did not send 'complete'
Failed == pc = "done" /\ "complete" \notin msgs

\* C20: every run that ends without a shape has sent an error message and
\* enableUndo with enabled = false.
C20_ErrorAndUndoOff ==
    Failed => ("error" \in msgs /\ "enableUndo:false" \in msgs)

\* the walk that has just ended, or the walk of a contour in the list, ran
\* into the iteration cap
CapHit ==
    \/ iterations > MAX_ITERATIONS
    \/ \E i \in 1..Len(ends) : ends[i].why = "iterations"

\* C21: once a contour walk has exceeded its maximum iteration count, the
\* whole tracing is aborted: traceEdges returns null and no shape is made.
C21_IterationGuardAborts ==
    CapHit =>
        /\ pc \in {"post", "done"}
        /\ result = "null"
        /\ ~vectorCreated

\* C22: traceEdges never returns more contours than the ceiling (50 in the
\* source); as soon as one more contour of at least 3 points is recorded,
\* the tracing stops there and traceEdges returns null.
C22_ContourCeiling ==
    /\ Len(paths) <= limits.paths + 1
    /\ result = "ok" => Len(paths) <= limits.paths
    /\ Len(paths) > limits.paths =>
          /\ pc \in {"post", "done"}
          /\ result = "null"
          /\ guard = "pathCeiling"
          /\ Len(Last(paths)) >= 3

\* C22 witness: traceEdges has just returned null on recording one contour
\* too many, with boundary pixels still to be looked at.
C22_Witness ==
    /\ pc = "post"
    /\ result = "null"
    /\ Len(paths) = limits.paths + 1
    /\ pixelIndex < Len(edgePixels)

\* C23: for a target of at least 3 points, no vector is ever made from a
\* simplified path of fewer than 3 points.
C23_NoDegenerateShape ==
    (vectorCreated /\ pathDensity >= 3) => Len(mainPath) >= 3

\* the timer of request r fires in this step only when the global is null
\* or holds the resolver of r itself
C24_TimeoutClearsOwn(r) ==
    (pending(r) /\ requests'[r].state = "timedOut") => pngDecodeResolve \in {0, r}

\* a reply handled in this step, while the request it answers is pending and
\* before the deadline of that request, finds a resolver (for an error, a
\* rejecter) to take it
C24_ReplyTaken ==
    (inbox # <<>> /\ inbox' = Tail(inbox)
        /\ pending(Head(inbox).data) /\ now < requests[Head(inbox).data].deadline)
    => IF Head(inbox).type = "pngDecoded"
       THEN pngDecodeResolve # 0
       ELSE pngDecodeReject # 0

\* C24: decode requests that overlap are independent: in every step, the
\* timer of one request never clears the pending resolver of another
\* request, and a reply that arrives before the timeout of the request it
\* answers is never silently dropped.
C24_IndependentRequests ==
    [][/\ \A r \in 1..MaxRequests : C24_TimeoutClearsOwn(r)
       /\ C24_ReplyTaken]_vars

====
